---- MODULE Spec2Model ----
\* Model of src/app.py: the batch medical report analyzer
\* (batch_report_analyzer_page), the document analyzer (analyze_content),
\* the PDF text extractor (extract_text_from_pdf) and the response
\* sanitizer (sanitize_response).
\*
\* A Python str is a sequence of one-character strings; a Python value is a
\* record [type, val] so that None and str can be told apart (isinstance,
\* truthiness).
EXTENDS Integers, Sequences, FiniteSets, TLC

VARIABLES
    uploaded_files,         \* the list st.file_uploader returned (app.py:100)
    idx,                    \* position of the for loop of app.py:111 (1-based)
    pc,                     \* batch: "loop" | "done"; report: "report" | "reported";
                            \* "crashed" after an exception nothing catches;
                            \* "unit" in the runs of a single function
    group_recommendations,  \* the dict of app.py:103-109
    pdf_text,               \* local of the loop body (app.py:113)
    abnormalities,          \* locals of app.py:131-135; they outlive an iteration
    conditions,
    medications,
    supplements,
    activities,
    ui,                     \* what the page has rendered: the st.* calls, in order
    calls,                  \* requests sent to the service (generate_content)
    service_faults,         \* how many requests the service has failed so far
    response,               \* sanitizer run: the argument of sanitize_response
    sanitized,              \* sanitizer run: the list it returned (Unbound before)
    a_text,                 \* analyzer run: the text argument of analyze_content
    a_query,                \* analyzer run: which of the five prompts is used
    a_result                \* analyzer run: the value analyze_content returned

vars == <<uploaded_files, idx, pc, group_recommendations, pdf_text,
          abnormalities, conditions, medications, supplements, activities,
          ui, calls, service_faults, response, sanitized,
          a_text, a_query, a_result>>

batch_vars == <<uploaded_files, idx, pc, group_recommendations, pdf_text,
                abnormalities, conditions, medications, supplements,
                activities, ui>>
sanitizer_vars == <<response, sanitized>>
analyzer_vars == <<a_text, a_query, a_result>>

----------------------------------------------------------------------------
\* Bounds of the model.

\* Largest number of files in one upload.
MaxDocs == 2
\* Largest number of requests the service fails during one batch run (the
\* single-report run is not bounded: it explores every combination).
MaxFaults == 1
\* Longest string handed to sanitize_response / analyze_content on their own.
MaxLen == 3

----------------------------------------------------------------------------
\* Python values and strings.

Str(s) == [type |-> "str", val |-> s]
None == [type |-> "NoneType", val |-> <<>>]
Unbound == [type |-> "unbound", val |-> <<>>]

\* bool(v) of `if pdf_text:` / `if page_text:` : None and "" are false.
Truthy(v) == v.type = "str" /\ v.val # <<>>

\* The characters str.strip() removes.
Whitespace == {" ", "\t", "\n"}

SetMin(S) == CHOOSE x \in S : \A y \in S : x <= y
SetMax(S) == CHOOSE x \in S : \A y \in S : x >= y

\* str.strip(): what lies between the first and the last character that is
\* not whitespace.
strip(s) ==
    LET keep == {i \in 1..Len(s) : s[i] \notin Whitespace}
    IN  IF keep = {} THEN <<>> ELSE SubSeq(s, SetMin(keep), SetMax(keep))

\* str.split(sep) for a one-character separator: the pieces between
\* consecutive separators; always at least one piece.
split(s, sep) ==
    LET cuts == {i \in 1..Len(s) : s[i] = sep}
        n == Cardinality(cuts)
        cut(k) == IF k = 0 THEN 0
                  ELSE IF k = n + 1 THEN Len(s) + 1
                  ELSE CHOOSE c \in cuts :
                           Cardinality({d \in cuts : d < c}) = k - 1
    IN  [k \in 1..(n + 1) |-> SubSeq(s, cut(k - 1) + 1, cut(k) - 1)]

\* str.endswith(suffix)
EndsWith(s, suffix) ==
    /\ Len(s) >= Len(suffix)
    /\ SubSeq(s, Len(s) - Len(suffix) + 1, Len(s)) = suffix

ToSet(seq) == {seq[i] : i \in 1..Len(seq)}

----------------------------------------------------------------------------
\* String literals of the program and of its collaborators.

\* "Error extracting text from PDF: "
PdfErrorPrefix ==
    <<"E","r","r","o","r"," ","e","x","t","r","a","c","t","i","n","g"," ","t","e","x",
      "t"," ","f","r","o","m"," ","P","D","F",":"," ">>

\* "No readable text found in the PDF."
NoReadableText ==
    <<"N","o"," ","r","e","a","d","a","b","l","e"," ","t","e","x","t"," ","f","o","u",
      "n","d"," ","i","n"," ","t","h","e"," ","P","D","F",".">>

\* "EOF marker not found": what PyPDF2.PdfReader raises on a truncated file.
EOFMarkerNotFound ==
    <<"E","O","F"," ","m","a","r","k","e","r"," ","n","o","t"," ","f","o","u","n","d">>

\* "No recommendations available for the given input."
NoRecommendations ==
    <<"N","o"," ","r","e","c","o","m","m","e","n","d","a","t","i","o","n","s"," ","a",
      "v","a","i","l","a","b","l","e"," ","f","o","r"," ","t","h","e"," ","g","i","v",
      "e","n"," ","i","n","p","u","t",".">>

\* "Error during analysis: "
AnalysisErrorPrefix ==
    <<"E","r","r","o","r"," ","d","u","r","i","n","g"," ","a","n","a","l","y","s","i",
      "s",":"," ">>

\* "timeout": the message of the exception a failed request raises.
Timeout ==
    <<"t","i","m","e","o","u","t">>

\* "Error tokenizing data": what pandas.read_csv raises on a malformed file.
ParserError ==
    <<"E","r","r","o","r"," ","t","o","k","e","n","i","z","i","n","g"," ","d","a","t",
      "a">>

\* "CSV file is empty."
CsvFileIsEmpty ==
    <<"C","S","V"," ","f","i","l","e"," ","i","s"," ","e","m","p","t","y",".">>

\* ".pdf"
DotPdf ==
    <<".","p","d","f">>

\* ".csv"
DotCsv ==
    <<".","c","s","v">>

\* The five prompts, in the order the page sends them.
Prompts ==
    << "List all abnormalities.",
       "Identify conditions of concern.",
       "Suggest medications with reasons.",
       "Recommend food supplements with benefits.",
       "Suggest suitable activities with benefits." >>

Queries == 1..Len(Prompts)

----------------------------------------------------------------------------
\* The uploaded files the model draws from.

\* "r.pdf"
ReportPdf ==
    <<"r",".","p","d","f">>

\* "r.csv"
ReportCsv ==
    <<"r",".","c","s","v">>

\* "r.PDF": the uploader matches extensions without regard to case, the page
\* matches them with str.endswith.
ReportUpper ==
    <<"r",".","P","D","F">>

\* "Hb 9"
ReportText ==
    <<"H","b"," ","9">>

\* "Hb\n 9": DataFrame.to_string(index=False) of a one-column table.
TableText ==
    <<"H","b","\n"," ","9">>

\* A file: its name; whether PdfReader / read_csv can open it; the text
\* extract_text() gives for each page; whether the parsed table is empty;
\* the table rendered by to_string(index=False).
File(name, opens, pages, empty, table) ==
    [name |-> name, opens |-> opens, pages |-> pages, empty |-> empty,
     table |-> table]

PdfGood == File(ReportPdf, TRUE, << <<>>, ReportText >>, FALSE, <<>>)
PdfCorrupt == File(ReportPdf, FALSE, <<>>, FALSE, <<>>)
PdfScanned == File(ReportPdf, TRUE, << <<>>, <<" ", "\n">> >>, FALSE, <<>>)
CsvGood == File(ReportCsv, TRUE, <<>>, FALSE, TableText)
CsvMalformed == File(ReportCsv, FALSE, <<>>, FALSE, <<>>)
CsvHeaderOnly == File(ReportCsv, TRUE, <<>>, TRUE, <<>>)
UpperCasePdf == File(ReportUpper, TRUE, << ReportText >>, FALSE, <<>>)

Files ==
    {PdfGood, PdfCorrupt, PdfScanned, CsvGood, CsvMalformed, CsvHeaderOnly,
     UpperCasePdf}

Uploads == UNION {[1..n -> Files] : n \in 1..MaxDocs}

----------------------------------------------------------------------------
\* The analysis service (genai.GenerativeModel.generate_content).

\* "A, b ,a,, "
AbnormalitiesAnswer ==
    <<"A",","," ","b"," ",",","a",",",","," ">>

\* "m, n"
MedicationsAnswer ==
    <<"m",","," ","n">>

\* The text the service answers each prompt with when it answers.
Answers ==
    << AbnormalitiesAnswer, <<"c">>, MedicationsAnswer, <<"s">>, <<"w">> >>

\* What one request can do: answer, come back without candidates, or raise.
Answered(text) == [kind |-> "text", text |-> text]
NoCandidates == [kind |-> "nocandidates", text |-> <<>>]
Raises(msg) == [kind |-> "raise", text |-> msg]

ResponseKinds == {"text", "nocandidates", "raise"}

Response(q, kind) ==
    IF kind = "text"
    THEN Answered(Answers[q])
    ELSE IF kind = "raise" THEN Raises(Timeout) ELSE NoCandidates

\* What the service does on the five requests of one document.
ServiceRuns ==
    {[q \in Queries |-> Response(q, k[q])] : k \in [Queries -> ResponseKinds]}

Healthy == [q \in Queries |-> Answered(Answers[q])]

Faults(run, n) == Cardinality({q \in 1..n : run[q].kind # "text"})

----------------------------------------------------------------------------
\* Exceptions: a class and a message. str(e) is the message.

Exc(cls, msg) == [cls |-> cls, msg |-> msg]
NoExc == Exc("", <<>>)

\* The classes that derive from Exception (all that the program can meet).
ExceptionClasses ==
    {"ValueError", "PdfReadError", "ParserError", "DeadlineExceeded"}

\* A handler that names one class only: everything else escapes it.
CaughtValueErrorOnly(e) == e.cls = "ValueError"

\* `except Exception as e` of the loop body (app.py:150).
Caught(e) == e.cls \in ExceptionClasses

\* The outcome of a call: the value returned, or the exception raised.
Return(v) == [raised |-> FALSE, value |-> v, exc |-> NoExc]
Raise(e) == [raised |-> TRUE, value |-> None, exc |-> e]

----------------------------------------------------------------------------
\* extract_text_from_pdf (app.py:35-47)

\* The loop of app.py:39-42: the text of the pages that have any.
RECURSIVE JoinPages(_)
JoinPages(pages) ==
    IF pages = <<>>
    THEN <<>>
    ELSE (IF Head(pages) # <<>> THEN Head(pages) ELSE <<>>)
             \o JoinPages(Tail(pages))

\* Both failures end in the except clause, which returns the message as text.
extract_text_from_pdf(pdf_file) ==
    IF ~pdf_file.opens
    THEN Str(PdfErrorPrefix \o EOFMarkerNotFound)
    ELSE LET text == JoinPages(pdf_file.pages)
         IN  IF strip(text) = <<>>
             THEN Str(PdfErrorPrefix \o NoReadableText)
             ELSE Str(text)

----------------------------------------------------------------------------
\* analyze_content (app.py:50-59)

\* analyze_content without its except clause: the exception escapes.
analyze_content_uncaught(text, prompt, resp) ==
    IF resp.kind = "raise"
    THEN [raised |-> TRUE, value |-> None,
          exc |-> [cls |-> "DeadlineExceeded", msg |-> resp.text]]
    ELSE IF resp.kind = "text"
         THEN [raised |-> FALSE, value |-> Str(resp.text),
               exc |-> [cls |-> "", msg |-> <<>>]]
         ELSE [raised |-> FALSE, value |-> Str(NoRecommendations),
               exc |-> [cls |-> "", msg |-> <<>>]]

\* The request analyze_content sends: text + prompt.
Request(text, prompt) == [text |-> text, prompt |-> prompt]

\* `resp` is what the service does with the request. Every exception is
\* caught and returned as text.
analyze_content(text, prompt, resp) ==
    IF resp.kind = "raise"
    THEN Return(Str(AnalysisErrorPrefix \o resp.text))
    ELSE IF resp.kind = "text"
         THEN Return(Str(resp.text))
         ELSE Return(Str(NoRecommendations))

----------------------------------------------------------------------------
\* sanitize_response (app.py:62-65)

\* sanitize_response filtering on `if item` instead of `if item.strip()`.
sanitize_response_keep_blank(r) ==
    IF r.type = "str"
    THEN LET items == SelectSeq(split(r.val, ","), LAMBDA item : item # <<>>)
         IN  [i \in 1..Len(items) |-> strip(items[i])]
    ELSE <<>>

\* sanitize_response keeping `item` instead of `item.strip()`.
sanitize_response_no_strip(r) ==
    IF r.type = "str"
    THEN SelectSeq(split(r.val, ","), LAMBDA item : strip(item) # <<>>)
    ELSE <<>>

sanitize_response(r) ==
    IF r.type = "str"
    THEN LET items == split(r.val, ",")
             stripped == [i \in 1..Len(items) |-> strip(items[i])]
         IN  SelectSeq(stripped, LAMBDA item : item # <<>>)
    ELSE <<>>

----------------------------------------------------------------------------
\* batch_report_analyzer_page (app.py:96-159)

\* app.py:103-109
EmptyGroup ==
    [common_abnormalities |-> {}, common_conditions |-> {},
     medications |-> <<>>, supplements |-> <<>>, activities |-> <<>>]

\* The fold with the sets assigned instead of updated.
FoldReplace(g, abn, cond, med, sup, act) ==
    [common_abnormalities |-> ToSet(sanitize_response(abn)),
     common_conditions |-> ToSet(sanitize_response(cond)),
     medications |-> Append(g.medications, med),
     supplements |-> Append(g.supplements, sup),
     activities |-> Append(g.activities, act)]

\* The fold leaving out a document one of whose five entries is a failure
\* marker.
FoldUnlessFailed(g, abn, cond, med, sup, act) ==
    IF \E v \in {abn, cond, med, sup, act} :
           \/ v.val = NoRecommendations
           \/ /\ Len(v.val) >= Len(AnalysisErrorPrefix)
              /\ SubSeq(v.val, 1, Len(AnalysisErrorPrefix))
                     = AnalysisErrorPrefix
    THEN g
    ELSE [common_abnormalities |->
              g.common_abnormalities \cup ToSet(sanitize_response(abn)),
          common_conditions |->
              g.common_conditions \cup ToSet(sanitize_response(cond)),
          medications |-> Append(g.medications, med),
          supplements |-> Append(g.supplements, sup),
          activities |-> Append(g.activities, act)]

\* app.py:144-148: set.update and list.append.
Fold(g, abn, cond, med, sup, act) ==
    [common_abnormalities |->
         g.common_abnormalities \cup ToSet(sanitize_response(abn)),
     common_conditions |->
         g.common_conditions \cup ToSet(sanitize_response(cond)),
     medications |-> Append(g.medications, med),
     supplements |-> Append(g.supplements, sup),
     activities |-> Append(g.activities, act)]

\* One thing the page rendered for file number `file`.
Shown(kind, file, text) == [kind |-> kind, file |-> file, text |-> text]

\* app.py:113-127: pdf_text after the if / elif, or the exception raised
\* by read_csv or by the empty-table check. A name with neither suffix
\* leaves pdf_text None.
Extraction(f) ==
    IF EndsWith(f.name, DotPdf)
    THEN Return(extract_text_from_pdf(f))
    ELSE IF EndsWith(f.name, DotCsv)
         THEN IF ~f.opens
              THEN Raise(Exc("ParserError", ParserError))
              ELSE IF f.empty
                   THEN Raise(Exc("ValueError", CsvFileIsEmpty))
                   ELSE Return(Str(f.table))
         ELSE Return(None)

\* What app.py:117-127 renders before the analysis.
Preview(f, i, ext) ==
    IF ext.raised
    THEN <<>>
    ELSE IF EndsWith(f.name, DotPdf)
         THEN <<Shown("text_area", i, ext.value.val)>>
         ELSE IF EndsWith(f.name, DotCsv)
              THEN <<Shown("dataframe", i, <<>>)>>
              ELSE <<>>

\* app.py:131-135: the five calls in order, each with what the service does
\* on it.
Calls(text, run) ==
    [q \in Queries |-> analyze_content(text, Prompts[q], run[q])]

\* The first call that raises ends the five. `done` is how many returned,
\* `sent` how many requests went out.
Analysis(r) ==
    LET bad == {q \in Queries : r[q].raised}
        done == IF bad = {} THEN Len(Prompts) ELSE SetMin(bad) - 1
    IN  [raised |-> bad # {},
         exc |-> IF bad = {} THEN NoExc ELSE r[done + 1].exc,
         done |-> done,
         sent |-> IF bad = {} THEN done ELSE done + 1,
         value |-> [q \in Queries |-> r[q].value]]

Init ==
    /\ uploaded_files \in Uploads
    /\ idx = 1
    /\ pc = "loop"
    /\ group_recommendations = EmptyGroup
    /\ pdf_text = Unbound
    /\ abnormalities = Unbound
    /\ conditions = Unbound
    /\ medications = Unbound
    /\ supplements = Unbound
    /\ activities = Unbound
    /\ ui = <<>>
    /\ calls = <<>>
    /\ service_faults = 0
    /\ response = None
    /\ sanitized = Unbound
    /\ a_text = <<>>
    /\ a_query = 1
    /\ a_result = Unbound

\* How an iteration ends: the except clause reports the exception and the loop
\* goes on; an exception it does not catch ends the page.
EndIteration(exc, shown) ==
    IF exc = NoExc
    THEN /\ ui' = ui \o shown
         /\ idx' = idx + 1
         /\ pc' = pc
    ELSE IF Caught(exc)
         THEN /\ ui' = ui \o shown \o <<Shown("error", idx, exc.msg)>>
              /\ idx' = idx + 1
              /\ pc' = pc
         ELSE /\ ui' = ui \o shown
              /\ idx' = idx
              /\ pc' = "crashed"

\* One iteration of the loop of app.py:111-151 whose file is not analysed:
\* extraction raised, or pdf_text is None or empty.
SkipFile ==
    /\ pc = "loop"
    /\ idx <= Len(uploaded_files)
    /\ \E f \in {uploaded_files[idx]} :
       \E ext \in {Extraction(f)} :
           /\ ext.raised \/ ~Truthy(ext.value)
           /\ pdf_text' = ext.value
           /\ EndIteration(ext.exc, Preview(f, idx, ext))
    /\ UNCHANGED <<uploaded_files, group_recommendations, abnormalities,
                   conditions, medications, supplements, activities, calls,
                   service_faults, sanitizer_vars, analyzer_vars>>

\* One iteration of the loop of app.py:111-151 whose pdf_text is truthy: the
\* five requests, the per-file results and the fold into the group. The
\* service fails at most MaxFaults requests in a run.
AnalyzeFile ==
    /\ pc = "loop"
    /\ idx <= Len(uploaded_files)
    /\ \E f \in {uploaded_files[idx]} :
       \E ext \in {Extraction(f)} :
       \E run \in ServiceRuns :
           /\ ~ext.raised
           /\ Truthy(ext.value)
           /\ service_faults + Faults(run, Len(Prompts)) <= MaxFaults
           /\ \E an \in {Analysis(Calls(ext.value.val, run))} :
                LET v == an.value
                    local(q, old) == IF q <= an.done THEN v[q] ELSE old
                IN  \* a request that is never sent has no outcome to choose
                    /\ \A q \in Queries : q > an.sent => run[q] = Healthy[q]
                    /\ service_faults' = service_faults + Faults(run, an.sent)
                    /\ pdf_text' = ext.value
                    /\ calls' = calls \o [q \in 1..an.sent |->
                                    Request(ext.value.val, Prompts[q])]
                    /\ abnormalities' = local(1, abnormalities)
                    /\ conditions' = local(2, conditions)
                    /\ medications' = local(3, medications)
                    /\ supplements' = local(4, supplements)
                    /\ activities' = local(5, activities)
                    /\ group_recommendations' =
                           IF an.raised
                           THEN group_recommendations
                           ELSE Fold(group_recommendations,
                                     v[1], v[2], v[3], v[4], v[5])
                    /\ EndIteration(an.exc,
                           Preview(f, idx, ext) \o
                           (IF an.raised THEN <<>>
                            ELSE <<Shown("results", idx, <<>>)>>))
    /\ UNCHANGED <<uploaded_files, sanitizer_vars, analyzer_vars>>

\* app.py:153-159: the loop is over; the group-level summary is rendered.
Complete ==
    /\ pc = "loop"
    /\ idx > Len(uploaded_files)
    /\ pc' = "done"
    /\ ui' = Append(ui, Shown("complete", 0, <<>>))
    /\ UNCHANGED <<uploaded_files, idx, group_recommendations, pdf_text,
                   abnormalities, conditions, medications, supplements,
                   activities, calls, service_faults, sanitizer_vars,
                   analyzer_vars>>

Next ==
    \/ SkipFile
    \/ AnalyzeFile
    \/ Complete

Spec == Init /\ [][Next]_vars

\* What every iteration does to the position of the loop: the for statement
\* of app.py:111 moves to the next file, and after the last file control
\* reaches app.py:153.
Advance ==
    /\ pc = "loop"
    /\ IF idx <= Len(uploaded_files)
       THEN idx' = idx + 1 /\ pc' = pc
       ELSE idx' = idx /\ pc' = "done"

\* The page is sequential code that nothing suspends: while the loop has an
\* iteration (or the summary) left to run, it runs it.
FairSpec == Spec /\ WF_<<idx, pc>>(Advance)

----------------------------------------------------------------------------
\* report_analyzer_page (app.py:68-93), once the API key is configured and a
\* file has been uploaded. The uploader takes PDF files only.

PdfUploads == {f \in Files : f.name \in {ReportPdf, ReportUpper}}

ReportInit ==
    /\ uploaded_files \in {<<f>> : f \in PdfUploads}
    /\ idx = 1
    /\ pc = "report"
    /\ group_recommendations = EmptyGroup
    /\ pdf_text = Unbound
    /\ abnormalities = Unbound
    /\ conditions = Unbound
    /\ medications = Unbound
    /\ supplements = Unbound
    /\ activities = Unbound
    /\ ui = <<>>
    /\ calls = <<>>
    /\ service_faults = 0
    /\ response = None
    /\ sanitized = Unbound
    /\ a_text = <<>>
    /\ a_query = 1
    /\ a_result = Unbound

\* app.py:78-93: extraction, the five requests, the results. Nothing here
\* catches an exception.
AnalyzeReport ==
    /\ pc = "report"
    /\ \E text \in {extract_text_from_pdf(uploaded_files[1])} :
       \E run \in ServiceRuns :
       \E an \in {Analysis(Calls(text.val, run))} :
           LET v == an.value
               local(q, old) == IF q <= an.done THEN v[q] ELSE old
           IN  \* a request that is never sent has no outcome to choose
               /\ \A q \in Queries : q > an.sent => run[q] = Healthy[q]
               /\ service_faults' = service_faults + Faults(run, an.sent)
               /\ pdf_text' = text
               /\ calls' = calls \o [q \in 1..an.sent |->
                               Request(text.val, Prompts[q])]
               /\ abnormalities' = local(1, abnormalities)
               /\ conditions' = local(2, conditions)
               /\ medications' = local(3, medications)
               /\ supplements' = local(4, supplements)
               /\ activities' = local(5, activities)
               /\ ui' = ui \o <<Shown("text_area", 1, text.val)>> \o
                        (IF an.raised THEN <<>>
                         ELSE <<Shown("results", 1, <<>>)>>)
               /\ pc' = IF an.raised THEN "crashed" ELSE "reported"
    /\ UNCHANGED <<uploaded_files, idx, group_recommendations,
                   sanitizer_vars, analyzer_vars>>

ReportNext == AnalyzeReport

SpecReport == ReportInit /\ [][ReportNext]_vars

----------------------------------------------------------------------------
\* sanitize_response and analyze_content run on their own, on every short
\* string over a small alphabet.

Alphabet == {"A", "a", " ", "\n", ","}

Strings == UNION {[1..n -> Alphabet] : n \in 0..MaxLen}

UnitInit(resp, text, query) ==
    /\ uploaded_files = <<>>
    /\ idx = 1
    /\ pc = "unit"
    /\ group_recommendations = EmptyGroup
    /\ pdf_text = Unbound
    /\ abnormalities = Unbound
    /\ conditions = Unbound
    /\ medications = Unbound
    /\ supplements = Unbound
    /\ activities = Unbound
    /\ ui = <<>>
    /\ calls = <<>>
    /\ service_faults = 0
    /\ response = resp
    /\ sanitized = Unbound
    /\ a_text = text
    /\ a_query = query
    /\ a_result = Unbound

SanitizerInit == \E r \in {None} \cup {Str(s) : s \in Strings} :
                     UnitInit(r, <<>>, 1)

\* One call of sanitize_response(response).
Sanitize ==
    /\ pc = "unit"
    /\ sanitized = Unbound
    /\ sanitized' = [type |-> "list", val |-> sanitize_response(response)]
    /\ UNCHANGED <<batch_vars, calls, service_faults, response,
                   analyzer_vars>>

SanitizerNext == Sanitize

SpecSanitizer == SanitizerInit /\ [][SanitizerNext]_vars

AnalyzerInit == \E s \in Strings, q \in Queries : UnitInit(None, s, q)

\* One call of analyze_content(a_text, Prompts[a_query]): app.py:53 sends the
\* request whatever the text is.
Analyze ==
    /\ pc = "unit"
    /\ a_result = Unbound
    /\ \E kind \in ResponseKinds :
         LET ret == analyze_content(a_text, Prompts[a_query],
                                    Response(a_query, kind))
         IN  /\ calls' = Append(calls, Request(a_text, Prompts[a_query]))
             /\ service_faults' = service_faults + (IF kind = "text" THEN 0 ELSE 1)
             /\ a_result' = IF ret.raised THEN Unbound ELSE ret.value
             /\ pc' = IF ret.raised THEN "crashed" ELSE pc
    /\ UNCHANGED <<uploaded_files, idx, group_recommendations, pdf_text,
                   abnormalities, conditions, medications, supplements,
                   activities, ui, sanitizer_vars, a_text, a_query>>

AnalyzerNext == Analyze

SpecAnalyzer == AnalyzerInit /\ [][AnalyzerNext]_vars

----------------------------------------------------------------------------
\* Properties.

\* What a file is, told from the file alone.
Supported(f) == EndsWith(f.name, DotPdf) \/ EndsWith(f.name, DotCsv)

Blank(s) == \A k \in DOMAIN s : s[k] \in Whitespace

\* A PDF that cannot be read or has no text on any page; a CSV that cannot be
\* parsed or has no rows.
ExtractionFails(f) ==
    \/ /\ EndsWith(f.name, DotPdf)
       /\ ~f.opens \/ \A i \in DOMAIN f.pages : Blank(f.pages[i])
    \/ /\ EndsWith(f.name, DotCsv)
       /\ ~f.opens \/ f.empty

Analyzable(f) == Supported(f) /\ ~ExtractionFails(f)

\* The loop is about to run the iteration of file number idx.
AtFile == pc = "loop" /\ idx <= Len(uploaded_files)

\* The per-file outcomes the page has rendered: results, or a reported error.
Outcomes(u) == SelectSeq(u, LAMBDA e : e.kind \in {"results", "error"})

Count(u, kind, file) ==
    Cardinality({k \in DOMAIN u : u[k].kind = kind /\ u[k].file = file})

IsPrefix(a, b) == Len(a) <= Len(b) /\ SubSeq(b, 1, Len(a)) = a

ErrorMarker == AnalysisErrorPrefix \o Timeout

Markers == {Str(NoRecommendations), Str(ErrorMarker)}

\* The entries one analysis leaves in the five locals, in query order.
Entries == <<abnormalities, conditions, medications, supplements, activities>>

\* C1: the iteration of a file whose extraction fails leaves all five fields
\* of group_recommendations as they were and reports exactly one failure for
\* that file.
C1_FailedExtractionContributesNothing ==
    [][(AtFile /\ ExtractionFails(uploaded_files[idx]) /\ idx' = idx + 1)
          => /\ group_recommendations' = group_recommendations
             /\ Count(ui', "error", idx) = 1
             /\ Count(ui', "results", idx) = 0]_vars

\* C2: when the batch is complete there is exactly one outcome per uploaded
\* file, in upload order (so a file of unsupported kind has one too).
C2_OneOutcomePerFile ==
    pc = "done" =>
        /\ Len(Outcomes(ui)) = Len(uploaded_files)
        /\ \A i \in DOMAIN Outcomes(ui) : Outcomes(ui)[i].file = i

\* C3: after each iteration, medications, supplements and activities are as
\* long as the number of files handled so far that are of a supported kind
\* and whose extraction succeeded.
C3_SequenceLengths ==
    pc \in {"loop", "done"} =>
        LET n == Cardinality({i \in 1..(idx - 1) :
                                 Analyzable(uploaded_files[i])})
        IN  /\ Len(group_recommendations.medications) = n
            /\ Len(group_recommendations.supplements) = n
            /\ Len(group_recommendations.activities) = n

\* C4: no failure ends the batch: the page never crashes, and the loop
\* eventually has run over every file and the group summary is rendered.
C4_NoGlobalAbort ==
    /\ [](pc # "crashed")
    /\ <>(/\ pc = "done"
          /\ idx = Len(uploaded_files) + 1
          /\ ui[Len(ui)].kind = "complete")

\* C4 witness: a complete batch in which a file failed and a later file has
\* its results.
C4_Witness ==
    /\ pc = "done"
    /\ \E i, j \in DOMAIN uploaded_files :
           /\ i < j
           /\ Count(ui, "error", i) = 1
           /\ Count(ui, "results", j) = 1

\* C5: analyze_content sends no request when its text is empty or only
\* whitespace.
C5_NoRequestForBlankText ==
    (pc = "unit" /\ Blank(a_text)) => calls = <<>>

\* C6: every analysis sends the five requests in their order, all with the
\* text of the document, and leaves one entry per query, the service's
\* answer or a failure marker (as many markers as requests that failed); no
\* failed request stops the later ones and no exception leaves
\* analyze_content.
C6_FiveEntriesPerAnalysis ==
    /\ pc # "crashed"
    /\ Len(calls) = 5 * Len(SelectSeq(ui, LAMBDA e : e.kind = "results"))
    /\ \A k \in DOMAIN calls :
           /\ calls[k].prompt = Prompts[((k - 1) % 5) + 1]
           /\ calls[k].text = calls[k - ((k - 1) % 5)].text
    /\ calls # <<>> =>
           \A q \in Queries : Entries[q] \in {Str(Answers[q])} \cup Markers
    /\ pc = "reported" =>
           /\ Len(calls) = 5
           /\ calls[1].text = pdf_text.val
           /\ Cardinality({q \in Queries : Entries[q] \in Markers})
                  = service_faults

\* C6 witness: the first request raised, the second came back empty, and
\* the three after them were still answered.
C6_Witness ==
    /\ pc = "reported"
    /\ abnormalities = Str(ErrorMarker)
    /\ conditions = Str(NoRecommendations)
    /\ medications = Str(Answers[3])
    /\ supplements = Str(Answers[4])
    /\ activities = Str(Answers[5])

\* The findings of the texts the service and the analyzer produce, written
\* out by hand.
ExpectedFindings(raw) ==
    CASE raw = AbnormalitiesAnswer -> {<<"A">>, <<"b">>, <<"a">>}
      [] raw = <<"c">> -> {<<"c">>}
      [] raw = NoRecommendations -> {NoRecommendations}
      [] raw = ErrorMarker -> {ErrorMarker}

\* C7: the iteration of a file whose extraction succeeded folds it whether
\* or not some of its queries failed: its results are rendered, each of the
\* three sequences gets exactly its entry appended (answer or marker, as
\* it is), and each set gets the findings of its entry, a comma-free marker
\* as one member.
C7_PartialResultsFolded ==
    [][(AtFile /\ Analyzable(uploaded_files[idx]) /\ idx' = idx + 1)
          => LET g == group_recommendations
                 h == group_recommendations'
             IN  /\ Count(ui', "results", idx) = 1
                 /\ Count(ui', "error", idx) = 0
                 /\ medications' \in {Str(Answers[3])} \cup Markers
                 /\ supplements' \in {Str(Answers[4])} \cup Markers
                 /\ activities' \in {Str(Answers[5])} \cup Markers
                 /\ h.medications = Append(g.medications, medications')
                 /\ h.supplements = Append(g.supplements, supplements')
                 /\ h.activities = Append(g.activities, activities')
                 /\ h.common_abnormalities = g.common_abnormalities
                        \cup ExpectedFindings(abnormalities'.val)
                 /\ h.common_conditions = g.common_conditions
                        \cup ExpectedFindings(conditions'.val)]_vars

\* C7 witness: a file whose conditions query failed has been folded: the
\* marker is a member of common_conditions, its abnormalities are in, and
\* its medications answer is in the sequence.
C7_Witness ==
    /\ ErrorMarker \in group_recommendations.common_conditions
    /\ <<"b">> \in group_recommendations.common_abnormalities
    /\ group_recommendations.medications = <<Str(MedicationsAnswer)>>

\* C8: the group starts empty; every step leaves the two sets supersets of
\* what they were and the three sequences extensions of what they were; a
\* step that folds a file makes each sequence exactly one longer.
C8_Monotone ==
    /\ group_recommendations = EmptyGroup
    /\ [][LET g == group_recommendations
              h == group_recommendations'
              folds == Len(Outcomes(ui')) > Len(Outcomes(ui))
                       /\ ui'[Len(ui')].kind = "results"
          IN  /\ g.common_abnormalities \subseteq h.common_abnormalities
              /\ g.common_conditions \subseteq h.common_conditions
              /\ IsPrefix(g.medications, h.medications)
              /\ IsPrefix(g.supplements, h.supplements)
              /\ IsPrefix(g.activities, h.activities)
              /\ folds => /\ Len(h.medications) = Len(g.medications) + 1
                          /\ Len(h.supplements) = Len(g.supplements) + 1
                          /\ Len(h.activities) = Len(g.activities) + 1]_vars

\* C8 witness: two files folded, the second adding to a set the first had
\* already filled.
C8_Witness ==
    /\ Len(group_recommendations.medications) = 2
    /\ Len(group_recommendations.activities) = 2
    /\ {<<"A">>, NoRecommendations}
           \subseteq group_recommendations.common_abnormalities

\* The segments of raw between commas, trimmed, the empty ones left out:
\* raw[a..b] is one when it has no comma, begins and ends with a character
\* that is not whitespace, and only whitespace separates it from the comma
\* (or the end of raw) on either side.
Findings(raw) ==
    {SubSeq(raw, a, b) : <<a, b>> \in
        {<<a, b>> \in (DOMAIN raw) \X (DOMAIN raw) :
            /\ a <= b
            /\ raw[a] \notin Whitespace
            /\ raw[b] \notin Whitespace
            /\ \A k \in a..b : raw[k] # ","
            /\ \E i \in 1..a :
                   /\ i = 1 \/ raw[i - 1] = ","
                   /\ \A k \in i..(a - 1) : raw[k] \in Whitespace
            /\ \E j \in b..Len(raw) :
                   /\ j = Len(raw) \/ raw[j + 1] = ","
                   /\ \A k \in (b + 1)..j : raw[k] \in Whitespace}}

\* C9: what sanitize_response contributes is exactly the set of the trimmed
\* non-empty comma-separated segments of its argument, and nothing for an
\* argument that is not a string.
C9_SanitizeFindings ==
    sanitized # Unbound =>
        ToSet(sanitized.val) =
            IF response.type = "str" THEN Findings(response.val) ELSE {}

\* C9 witness: "A, " has been sanitized to the one finding "A".
C9_Witness ==
    /\ response = Str(<<"A", ",", " ">>)
    /\ sanitized # Unbound
    /\ sanitized.val = << <<"A">> >>

UpperCase ==
    <<"A","B","C","D","E","F","G","H","I","J","K","L","M","N","O","P","Q","R","S",
      "T","U","V","W","X","Y","Z">>

LowerCase ==
    <<"a","b","c","d","e","f","g","h","i","j","k","l","m","n","o","p","q","r","s",
      "t","u","v","w","x","y","z">>

\* str.lower() on the letters A-Z.
Lower(s) ==
    [k \in DOMAIN s |->
        IF \E n \in DOMAIN UpperCase : UpperCase[n] = s[k]
        THEN LowerCase[CHOOSE n \in DOMAIN UpperCase : UpperCase[n] = s[k]]
        ELSE s[k]]

Trimmed(m) ==
    m # <<>> /\ m[1] \notin Whitespace /\ m[Len(m)] \notin Whitespace

FindingSets ==
    {group_recommendations.common_abnormalities,
     group_recommendations.common_conditions}

\* C10 as stated: every member of the two sets is trimmed and non-empty, and
\* no two distinct members differ only in letter case or surrounding
\* whitespace.
C10_CaseAndWhitespaceNormalized ==
    \A S \in FindingSets :
        /\ \A m \in S : Trimmed(m)
        /\ \A m, n \in S : Lower(strip(m)) = Lower(strip(n)) => m = n

\* C10 amended: every member of the two sets is trimmed and non-empty, so no
\* two distinct members differ only in surrounding whitespace; members that
\* differ in letter case stay distinct.
C10_WhitespaceNormalized ==
    \A S \in FindingSets :
        /\ \A m \in S : Trimmed(m)
        /\ \A m, n \in S : strip(m) = strip(n) => m = n

\* C10 witness: "A" and "a", from an answer that had them as " b "-style
\* padded segments, are both members.
C10_Witness ==
    {<<"A">>, <<"a">>, <<"b">>}
        \subseteq group_recommendations.common_abnormalities

====
